---- MODULE Spec2Model ----
(***************************************************************************)
(* Neighborhood Components Analysis (metric_learn/nca.py): NCA.fit, the    *)
(* objective NCA._loss_grad_lbfgs and the minimizer that drives it.        *)
(*                                                                         *)
(* Numbers.  A float is a fixed-point number: an integer count of ticks,   *)
(* Unit ticks to 1.0, every operation rounded to the nearest tick.  The    *)
(* spacing of the numbers at 1.0 is one tick, so EPS (np.finfo(float).eps) *)
(* is one tick and 1/EPS is Unit*Unit ticks.  +inf, -inf and nan are the   *)
(* three values PosInf, NegInf and NaN outside the range the model uses.   *)
(***************************************************************************)
EXTENDS Integers, Sequences, FiniteSets, TLC

----------------------------------------------------------------------------
(* The number format *)

Unit == 2^8

EPS == 1

PosInf == 2^30

NegInf == -(2^30)

NaN == 2^30 + 1

IsFinite(v) == v > NegInf /\ v < PosInf

Abs(v) == IF v < 0 THEN -v ELSE v

Min(a, b) == IF a < b THEN a ELSE b

Max(a, b) == IF a > b THEN a ELSE b

\* a / b for b > 0, rounded to the nearest integer
RoundDiv(a, b) == (2 * a + b) \div (2 * b)

\* the float product and quotient of two finite floats
Mul(a, b) == RoundDiv(a * b, Unit)

Div(a, b) == IF b > 0 THEN RoundDiv(a * Unit, b) ELSE -RoundDiv(a * Unit, -b)

RECURSIVE SumSeq(_)
SumSeq(s) == IF s = <<>> THEN 0 ELSE Head(s) + SumSeq(Tail(s))

RECURSIVE MaxSeq(_)
MaxSeq(s) == IF Len(s) = 1 THEN s[1] ELSE Max(Head(s), MaxSeq(Tail(s)))

RECURSIVE MinSeq(_)
MinSeq(s) == IF Len(s) = 1 THEN s[1] ELSE Min(Head(s), MinSeq(Tail(s)))

----------------------------------------------------------------------------
(* np.exp and np.log, computed at 2^14 steps to 1.0 and rounded to ticks *)

Fine == 2^14

\* the Taylor series of e^(-f) for 0 <= f < 1, f and the sum in Fine steps
RECURSIVE ExpSeries(_, _, _)
ExpSeries(f, term, k) ==
    IF term = 0 \/ k > 16 THEN 0
    ELSE term + ExpSeries(f, -RoundDiv(term * f, k * Fine), k + 1)

\* e^(-q) for an integer q >= 0, in Fine steps
RECURSIVE ExpWhole(_)
ExpWhole(q) == IF q = 0 THEN Fine ELSE RoundDiv(ExpWhole(q - 1) * 6027, Fine)

ExpNegLimit == 7 * Unit

\* e^(-t/Unit) in ticks for 0 <= t <= ExpNegLimit; it underflows to 0 past that
ExpNeg(t) ==
    RoundDiv(RoundDiv(ExpWhole(t \div Unit)
                      * ExpSeries((t % Unit) * (Fine \div Unit), Fine, 1), Fine)
             * Unit, Fine)

\* np.exp of a float v <= 0 (or -inf, or nan)
Exp(v) ==
    IF v = NaN THEN NaN
    ELSE IF v = NegInf THEN 0
    ELSE IF v = PosInf THEN PosInf
    ELSE IF v <= 0 THEN (IF -v > ExpNegLimit THEN 0 ELSE ExpNeg(-v))
    ELSE IF v > ExpNegLimit \/ ExpNeg(v) = 0 THEN PosInf
    ELSE RoundDiv(Unit * Unit, ExpNeg(v))

\* the series of 2*atanh(z) = ln((1+z)/(1-z)), z and the sum in Fine steps
RECURSIVE LogSeries(_, _, _)
LogSeries(z2, pow, k) ==
    IF pow = 0 \/ k > 41 THEN 0
    ELSE RoundDiv(2 * pow, k) + LogSeries(z2, RoundDiv(pow * z2, Fine), k + 2)

\* ln(s/Unit) in ticks for s >= Unit
Ln(s) ==
    LET z == RoundDiv((s - Unit) * Fine, s + Unit)
    IN  RoundDiv(LogSeries(RoundDiv(z * z, Fine), z, 1) * Unit, Fine)

\* np.log of a float v >= 0
Log(v) ==
    IF v = NaN \/ v < 0 THEN NaN
    ELSE IF v = 0 THEN NegInf
    ELSE IF v = PosInf THEN PosInf
    ELSE IF v >= Unit THEN Ln(v)
    ELSE -Ln(RoundDiv(Unit * Unit, v))

----------------------------------------------------------------------------
(* numpy arrays: a matrix is a sequence of rows, a flat vector a sequence *)

NRows(m) == Len(m)

NCols(m) == IF Len(m) = 0 THEN 0 ELSE Len(m[1])

Transpose(m) == [j \in 1..NCols(m) |-> [i \in 1..NRows(m) |-> m[i][j]]]

\* np.dot of an (r x n) and an (n x c) matrix of finite floats
Dot(a, b) ==
    [i \in 1..NRows(a) |->
        [j \in 1..NCols(b) |->
            SumSeq([l \in 1..NRows(b) |-> Mul(a[i][l], b[l][j])])]]

\* a.ravel()
Ravel(m) == [i \in 1..(NRows(m) * NCols(m)) |->
                m[((i - 1) \div NCols(m)) + 1][((i - 1) % NCols(m)) + 1]]

\* a.reshape(-1, d), for a flat vector whose length d divides
Reshape(a, d) == [r \in 1..(Len(a) \div d) |-> [c \in 1..d |-> a[(r - 1) * d + c]]]

\* np.fill_diagonal(m, val) with val a flat vector: m.flat[:end:step] = val with
\* step = cols + 1 and end = cols * cols, val repeated as often as needed;
\* entry (i, i) exists for i <= min(rows, cols)
FillDiagonal(m, val) ==
    [i \in 1..NRows(m) |->
        [j \in 1..NCols(m) |->
            IF i = j THEN val[((i - 1) % Len(val)) + 1] ELSE m[i][j]]]

\* m.sum(axis=1): the row sums, and m.sum(axis=0): the column sums
SumAxis1(m) == [i \in 1..NRows(m) |-> SumSeq(m[i])]

SumAxis0(m) == [j \in 1..NCols(m) |-> SumSeq([i \in 1..NRows(m) |-> m[i][j]])]

\* some entry of m is nan or infinite
HasNonFinite(m) == \E i \in 1..NRows(m) : \E j \in 1..NCols(m) : ~IsFinite(m[i][j])

\* sklearn.metrics.pairwise_distances(Y, squared=True): the squared Euclidean
\* distance of every two rows of Y
PairwiseDistances(Y) ==
    [i \in 1..NRows(Y) |->
        [j \in 1..NRows(Y) |->
            SumSeq([l \in 1..NCols(Y) |->
                      Mul(Y[i][l] - Y[j][l], Y[i][l] - Y[j][l])])]]

\* -v for a float v
Neg(v) == IF v = NaN THEN NaN ELSE IF v = PosInf THEN NegInf
          ELSE IF v = NegInf THEN PosInf ELSE -v

\* a - b for floats: inf - inf is nan
Sub(a, b) ==
    IF a = NaN \/ b = NaN THEN NaN
    ELSE IF IsFinite(a) /\ IsFinite(b) THEN a - b
    ELSE IF IsFinite(a) THEN Neg(b)
    ELSE IF IsFinite(b) THEN a
    ELSE IF a = b THEN NaN ELSE a

\* A faulty variant of LogSumExp: the exponentials are summed without taking the maximum out
LogSumExp_NoMax(v) == Log(SumSeq([j \in 1..Len(v) |-> Exp(v[j])]))

\* logsumexp(v) of one row: a_max = max(v), taken as 0 when it is not finite;
\* log(sum(exp(v - a_max))) + a_max
LogSumExp(v) ==
    LET a_max == IF IsFinite(MaxSeq(v)) THEN MaxSeq(v) ELSE 0
        s     == SumSeq([j \in 1..Len(v) |-> Exp(Sub(v[j], a_max))])
        out   == Log(s)
    IN  IF IsFinite(out) THEN out + a_max ELSE out

\* the softmax of line 162: exp(-p_ij - logsumexp(-p_ij, axis=1)[:, np.newaxis])
Softmax(dist) ==
    [i \in 1..NRows(dist) |->
        LET negrow == [j \in 1..NCols(dist) |-> Neg(dist[i][j])]
            lse    == LogSumExp(negrow)
        IN  [j \in 1..NCols(dist) |-> Exp(Sub(negrow[j], lse))]]

\* A faulty variant of Broadcastable: the mask must have p_ij's shape
Broadcastable_SameShape(m, n) == NRows(m) = n /\ NCols(m) = n

\* Whether an (mr x mc) array broadcasts against an (n x n) one
Broadcastable(m, n) ==
    /\ NRows(m) \in {1, n}
    /\ NCols(m) \in {1, n}

\* p_ij * mask, the mask broadcast to p_ij's shape; True is 1.0 and False 0.0
TimesMask(p_ij, m) ==
    [i \in 1..NRows(p_ij) |->
        [j \in 1..NCols(p_ij) |->
            IF m[IF NRows(m) = 1 THEN 1 ELSE i][IF NCols(m) = 1 THEN 1 ELSE j]
            THEN p_ij[i][j] ELSE 0]]

----------------------------------------------------------------------------
(* NCA._loss_grad_lbfgs(self, A, X, mask, sign) *)

\* The lines printed when verbose: the header before the first call of a fit,
\* and one line of values per call.  The seconds printed are not kept.
HeaderLines == << <<"header">> >>

ValuesLine(n_iter, loss) == <<"values", n_iter, loss>>

\* A faulty variant of Gradient: the embedding is left out of the product
Gradient_NoEmbedding(p_ij, masked_p_ij, p, X_embedded, X) ==
    LET n == NRows(p_ij)
        weighted_p_ij ==
            [i \in 1..n |-> [j \in 1..n |-> masked_p_ij[i][j] - Mul(p_ij[i][j], p[i])]]
        weighted_sum == [i \in 1..n |-> [j \in 1..n |->
                            weighted_p_ij[i][j] + weighted_p_ij[j][i]]]
        colsum == SumAxis0(weighted_p_ij)
        g == Dot(FillDiagonal(weighted_sum, [j \in 1..n |-> -colsum[j]]), X)
    IN  [i \in 1..NRows(g) |-> [j \in 1..NCols(g) |-> 2 * g[i][j]]]

\* The gradient of lines 171-174 from the softmax p_ij, the masked softmax, the
\* row sums p, the embedding and X
Gradient(p_ij, masked_p_ij, p, X_embedded, X) ==
    LET n == NRows(p_ij)
        weighted_p_ij ==
            [i \in 1..n |-> [j \in 1..n |-> masked_p_ij[i][j] - Mul(p_ij[i][j], p[i])]]
        weighted_p_ij_T == Transpose(weighted_p_ij)
        weighted_sum == [i \in 1..n |-> [j \in 1..n |->
                            weighted_p_ij[i][j] + weighted_p_ij_T[i][j]]]
        colsum == SumAxis0(weighted_p_ij)
        weighted_p_ij_sym == FillDiagonal(weighted_sum, [j \in 1..n |-> -colsum[j]])
        g == Dot(Dot(Transpose(X_embedded), weighted_p_ij_sym), X)
    IN  [i \in 1..NRows(g) |-> [j \in 1..NCols(g) |-> 2 * g[i][j]]]

\* sign * v for sign in {1, -1} (in ticks: Unit or -Unit)
Signed(sign, v) == IF v = NaN THEN NaN ELSE Mul(sign, v)

\* Lines 157-174 and 185: what the call computes from its arguments alone.
\* raised names the exception, if any; p_ij is the local of that name.
Objective(A, Xv, m, s) ==
    LET d == NCols(Xv)
        n == NRows(Xv)
    IN  IF Len(A) % d # 0
        THEN \* A.reshape(-1, X.shape[1]) raises
             [raised |-> "ValueError", loss |-> 0, gradient |-> <<>>, p_ij |-> <<>>]
        ELSE
        LET A2 == Reshape(A, d)
            X_embedded == Dot(Xv, Transpose(A2))
            p_ij == Softmax(FillDiagonal(PairwiseDistances(X_embedded), <<PosInf>>))
        IN  IF ~Broadcastable(m, n)
            THEN \* p_ij * mask raises
                 [raised |-> "ValueError", loss |-> 0, gradient |-> <<>>,
                  p_ij |-> p_ij]
            ELSE
            LET masked_p_ij == TimesMask(p_ij, m)
                p == SumAxis1(masked_p_ij)
                nan == HasNonFinite(p_ij)
                loss == IF nan THEN NaN ELSE SumSeq(p)
                gradient ==
                    IF nan THEN [i \in 1..Len(A) |-> NaN]
                    ELSE Ravel(Gradient(p_ij, masked_p_ij, p, X_embedded, Xv))
            IN  [raised |-> "", loss |-> Signed(s, loss),
                 gradient |-> [i \in 1..Len(gradient) |-> Signed(s, gradient[i])],
                 p_ij |-> p_ij]

\* A faulty variant of CounterAfterCall: the counter is decremented
CounterAfterCall_Decrement(self) == self.n_iter_ - 1

\* A faulty variant of CounterAfterCall: the increment sits inside the verbose block
CounterAfterCall_OnlyVerbose(self) ==
    IF self.verbose THEN self.n_iter_ + 1 ELSE self.n_iter_

\* Line 184: self.n_iter_ += 1
CounterAfterCall(self) == self.n_iter_ + 1

\* A faulty variant of ArraysAfterCall: the call clears the mask's diagonal in place
ArraysAfterCall_MaskDiagonal(A, Xv, m) ==
    [A |-> A, X |-> Xv, mask |-> FillDiagonal(m, <<FALSE>>)]

\* The arrays the call was handed, as they are after it: lines 157-174 rebind
\* A and write only arrays they made (p_ij, weighted_p_ij_sym)
ArraysAfterCall(A, Xv, m) == [A |-> A, X |-> Xv, mask |-> m]

\* The lines printed by one call that computed r (lines 145-153, 176-182); the
\* loss printed is the unsigned one
PrintedByCall(self, out, r) ==
    LET out1 == IF self.n_iter_ = 0 /\ self.verbose THEN out \o HeaderLines ELSE out
    IN  IF r.raised = "" /\ self.verbose
        THEN Append(out1, ValuesLine(self.n_iter_, Abs(r.loss)))
        ELSE out1

\* A faulty variant of loss_grad_lbfgs: the sign is applied on the first call only
loss_grad_lbfgs_SignOnFirstCall(self, out, A, Xv, m, s) ==
    CHOOSE res \in
        { r @@ ArraysAfterCall(A, Xv, m)
            @@ [n_iter_ |-> IF r.raised = "" THEN CounterAfterCall(self)
                            ELSE self.n_iter_,
                out |-> PrintedByCall(self, out, r)]
          : r \in {Objective(A, Xv, m, IF self.n_iter_ = 0 THEN s ELSE Unit)} } : TRUE

\* One call, lines 143-185.  The result names what the call returned or raised,
\* the instance's n_iter_ and the printed lines after it, and the three arrays
\* it was handed as they are after it.
loss_grad_lbfgs(self, out, A, Xv, m, s) ==
    CHOOSE res \in
        { r @@ ArraysAfterCall(A, Xv, m)
            @@ [n_iter_ |-> IF r.raised = "" THEN CounterAfterCall(self)
                            ELSE self.n_iter_,
                out |-> PrintedByCall(self, out, r)]
          : r \in {Objective(A, Xv, m, s)} } : TRUE

----------------------------------------------------------------------------
(* NCA.fit(self, X, y) up to the call of the optimizer *)

None == -1

\* _prepare_inputs(X, y, ensure_min_samples=2) accepts the data
ValidInputs(Xv, y) == NRows(Xv) >= 2 /\ Len(y) = NRows(Xv)

\* X.max(axis=0) - X.min(axis=0): the range of every feature
FeatureRange(Xv) ==
    [j \in 1..NCols(Xv) |->
        MaxSeq([i \in 1..NRows(Xv) |-> Xv[i][j]])
        - MinSeq([i \in 1..NRows(Xv) |-> Xv[i][j]])]

\* np.zeros((num_dims, d))
Zeros(rows, cols) == [i \in 1..rows |-> [j \in 1..cols |-> 0]]

\* A faulty variant of InitialTransform: the range is floored at 1.0 instead of EPS
InitialTransform_FloorOne(Xv, num_dims_arg) ==
    LET d == NCols(Xv)
        num_dims == IF num_dims_arg = None THEN d ELSE num_dims_arg
        range == FeatureRange(Xv)
    IN  FillDiagonal(Zeros(num_dims, d),
                     [j \in 1..d |-> Div(Unit, Max(range[j], Unit))])

\* Lines 99-109: A, the scaling matrix the optimizer starts from
InitialTransform(Xv, num_dims_arg) ==
    LET d == NCols(Xv)
        num_dims == IF num_dims_arg = None THEN d ELSE num_dims_arg
        range == FeatureRange(Xv)
    IN  FillDiagonal(Zeros(num_dims, d),
                     [j \in 1..d |-> Div(Unit, Max(range[j], EPS))])

\* Line 112: mask = labels[:, np.newaxis] == labels[np.newaxis, :]
SameClassMask(y) == [i \in 1..Len(y) |-> [j \in 1..Len(y) |-> y[i] = y[j]]]

----------------------------------------------------------------------------
(* NCA.fit(self, X, y) once the optimizer has returned *)

ConvergenceWarning(message) == <<"ConvergenceWarning", message>>

TrainingTookLine == <<"training took">>

\* A faulty variant of FitEnd: the warning is raised outside the verbose block
FitEnd_WarnAlways(self, out, warns, opt_result, Xv) ==
    [self  |-> [self EXCEPT !.transformer_ = Reshape(opt_result.x, NCols(Xv)),
                            !.n_iter_ = opt_result.nit],
     warns |-> IF ~opt_result.success
               THEN Append(warns, ConvergenceWarning(opt_result.message))
               ELSE warns,
     out   |-> IF self.verbose THEN Append(out, TrainingTookLine) ELSE out]

\* A faulty variant of FitEnd: line 127 is missing, n_iter_ stays the count of calls
FitEnd_KeepCallCount(self, out, warns, opt_result, Xv) ==
    LET self1 == [self EXCEPT !.transformer_ = Reshape(opt_result.x, NCols(Xv))]
    IN  IF self.verbose
        THEN [self  |-> self1,
              warns |-> IF ~opt_result.success
                        THEN Append(warns, ConvergenceWarning(opt_result.message))
                        ELSE warns,
              out   |-> Append(out, TrainingTookLine)]
        ELSE [self |-> self1, warns |-> warns, out |-> out]

\* Lines 126-141.  opt_result is what minimize returned; the result is the
\* instance, the printed lines and the warnings raised after fit's last line.
FitEnd(self, out, warns, opt_result, Xv) ==
    LET self1 == [self EXCEPT !.transformer_ = Reshape(opt_result.x, NCols(Xv)),
                              !.n_iter_ = opt_result.nit]
    IN  IF self.verbose
        THEN [self  |-> self1,
              warns |-> IF ~opt_result.success
                        THEN Append(warns, ConvergenceWarning(opt_result.message))
                        ELSE warns,
              out   |-> Append(out, TrainingTookLine)]
        ELSE [self |-> self1, warns |-> warns, out |-> out]

----------------------------------------------------------------------------
(* The bounds of the model *)

\* max_iter is drawn from 1..MaxIter
MaxIter == 2

\* the optimizer evaluates at most MaxLineSearch points in one line search
MaxLineSearch == 2

\* the evaluator is called directly at most MaxCalls times
MaxCalls == 3

----------------------------------------------------------------------------
(* The state *)

VARIABLES
    pc,       \* "constructed", "minimize" (inside minimize), "done", "raised";
              \* "direct" when the evaluator is called without fit
    self,     \* the NCA instance: num_dims, max_iter, verbose, n_iter_, transformer_
    X,        \* the data matrix, n x d
    labels,   \* y, the n labels
    A,        \* fit's local A, the initial transform
    mask,     \* the same-class mask handed to the evaluator
    sign,     \* the sign handed to the evaluator
    opt,      \* the optimizer: x, trial (the point it evaluates next), task, ...
    last,     \* what the latest evaluator call returned, and its p_ij
    out,      \* the lines printed
    warns,    \* the warnings raised
    calls,    \* every evaluator call so far: its arguments and what it returned
    twin      \* the same run with verbose negated: self, out, warns, last

vars == <<pc, self, X, labels, A, mask, sign, opt, last, out, warns, calls, twin>>

----------------------------------------------------------------------------
(* The inputs *)

\* The datasets fit is called with: X in ticks, y the labels
Datasets ==
    { [X |-> << <<0, 0>>, <<0, Unit>>, <<3 * Unit, 0>>, <<3 * Unit, Unit>> >>,
       y |-> <<0, 0, 1, 1>>],
      [X |-> << <<0, Unit>>, <<Unit, Unit>>, <<2 * Unit, Unit>> >>,
       y |-> <<0, 1, 0>>],
      [X |-> << <<Unit, Unit>>, <<Unit, Unit>>, <<0, 2 * Unit>> >>,
       y |-> <<0, 0, 0>>],
      [X |-> << <<0>>, <<2 * Unit>> >>, y |-> <<0, 1>>],
      [X |-> << <<0, Unit, 0>>, <<Unit, 0, 0>>, <<3 * Unit, 3 * Unit, 0>> >>,
       y |-> <<0, 1, 2>>],
      [X |-> << <<0, 0>>, <<0, 0>>, <<8 * Unit, Unit>>, <<8 * Unit, 0>> >>,
       y |-> <<0, 1, 1, 1>>],
      [X |-> << <<Unit, 0>> >>, y |-> <<0>>] }

NumDimsChoices == {None, 1, 2, 3}

NoResult == [raised |-> "", loss |-> 0, gradient |-> <<>>, p_ij |-> <<>>, A |-> <<>>]

NoOpt == [x |-> <<>>, trial |-> <<>>, task |-> "", f |-> 0, g |-> <<>>,
          fx |-> 0, gx |-> <<>>, alpha |-> 0, nit |-> 0, nfev |-> 0, ls |-> 0]

\* NCA.__init__(num_dims, max_iter, tol, verbose), lines 87-91
NewNCA(num_dims, max_iter, verbose) ==
    [num_dims |-> num_dims, max_iter |-> max_iter, verbose |-> verbose,
     n_iter_ |-> None, transformer_ |-> <<>>]

Twin(selfv) == [self |-> [selfv EXCEPT !.verbose = ~selfv.verbose],
                out |-> <<>>, warns |-> <<>>, last |-> NoResult]

Init ==
    /\ pc = "constructed"
    /\ \E num_dims \in NumDimsChoices, max_iter \in 1..MaxIter, verbose \in BOOLEAN :
          /\ self = NewNCA(num_dims, max_iter, verbose)
          /\ twin = Twin(NewNCA(num_dims, max_iter, verbose))
    /\ \E ds \in Datasets : X = ds.X /\ labels = ds.y
    /\ A = <<>>
    /\ mask = <<>>
    /\ sign = -Unit
    /\ opt = NoOpt
    /\ last = NoResult
    /\ out = <<>>
    /\ warns = <<>>
    /\ calls = {}

----------------------------------------------------------------------------
(* fit, lines 98-124: the inputs are checked, A and the mask built, n_iter_ set
   to 0 and minimize entered with x0 = A.ravel() *)

FitBegin ==
    /\ pc = "constructed"
    /\ IF ~ValidInputs(X, labels)
       THEN /\ pc' = "raised"
            /\ UNCHANGED <<self, A, mask, sign, opt, twin>>
       ELSE /\ pc' = "minimize"
            /\ A' = InitialTransform(X, self.num_dims)
            /\ mask' = SameClassMask(labels)
            /\ sign' = -Unit
            /\ self' = [self EXCEPT !.n_iter_ = 0]
            /\ twin' = [twin EXCEPT !.self.n_iter_ = 0]
            /\ opt' = [NoOpt EXCEPT !.x = Ravel(A'), !.trial = Ravel(A'), !.task = "FG"]
    /\ UNCHANGED <<X, labels, last, out, warns, calls>>

----------------------------------------------------------------------------
(* The evaluator, called by the optimizer or directly *)

Returned(r) == [raised |-> r.raised, loss |-> r.loss, gradient |-> r.gradient,
                p_ij |-> r.p_ij, A |-> r.A]

\* The call of loss_grad_lbfgs at point a
CallEvaluator(a) ==
    \E r \in {loss_grad_lbfgs(self, out, a, X, mask, sign)} :
        /\ self' = [self EXCEPT !.n_iter_ = r.n_iter_]
        /\ out' = r.out
        /\ X' = r.X
        /\ mask' = r.mask
        /\ last' = Returned(r)
        /\ calls' = calls \cup {[A |-> a, X |-> X, mask |-> mask, sign |-> sign,
                                 n_iter_ |-> self.n_iter_, raised |-> r.raised,
                                 loss |-> r.loss, gradient |-> r.gradient]}
        /\ opt' = [opt EXCEPT !.trial = r.A, !.f = r.loss, !.g = r.gradient,
                              !.nfev = @ + 1,
                              !.fx = IF opt.ls = 0 THEN r.loss ELSE @,
                              !.gx = IF opt.ls = 0 THEN r.gradient ELSE @,
                              !.task = IF opt.task # "FG" THEN @
                                       ELSE IF opt.ls = 0 THEN "ITER" ELSE "LNSRCH"]
        /\ pc' = IF r.raised # "" /\ pc = "minimize" THEN "raised" ELSE pc

\* The same call in the twin run
TwinCall(a) ==
    \E rt \in {loss_grad_lbfgs(twin.self, twin.out, a, X, mask, sign)} :
        twin' = [twin EXCEPT !.self.n_iter_ = rt.n_iter_, !.out = rt.out,
                             !.last = Returned(rt)]

----------------------------------------------------------------------------
(* scipy.optimize.minimize(method='L-BFGS-B', fun, x0, jac=True, maxiter) *)

\* The steps the first trial of a line search may take along -g
StepSizes == {Unit \div 16, Unit \div 4}

\* x - alpha * g
StepFrom(xv, alpha, g) == [i \in 1..Len(xv) |-> xv[i] - Mul(alpha, g[i])]

\* The optimizer asks for the function and its gradient at opt.trial
Evaluate ==
    /\ pc = "minimize"
    /\ opt.task = "FG"
    /\ CallEvaluator(opt.trial)
    /\ TwinCall(opt.trial)
    /\ UNCHANGED <<labels, A, sign, warns>>

\* The optimizer picks the next point of a line search from x: the first at a
\* step it chooses, each later one at half the step before
LineSearchTrial ==
    /\ pc = "minimize"
    /\ opt.task \in {"ITER", "LNSRCH"}
    /\ opt.ls < MaxLineSearch
    /\ \E alpha \in (IF opt.ls = 0 THEN StepSizes ELSE {opt.alpha \div 2}) :
          opt' = [opt EXCEPT !.trial = StepFrom(opt.x, alpha, opt.gx),
                             !.alpha = alpha, !.ls = @ + 1, !.task = "FG"]
    /\ UNCHANGED <<pc, self, X, labels, A, mask, sign, last, out, warns, calls, twin>>

\* The line search accepts the trial point: one iteration is done, and the
\* optimizer stops when maxiter iterations are
NewX ==
    /\ pc = "minimize"
    /\ opt.task = "LNSRCH"
    /\ opt' = [opt EXCEPT !.x = opt.trial, !.fx = opt.f, !.gx = opt.g,
                          !.nit = @ + 1, !.ls = 0,
                          !.task = IF opt.nit + 1 >= self.max_iter
                                   THEN "STOP" ELSE "ITER"]
    /\ UNCHANGED <<pc, self, X, labels, A, mask, sign, last, out, warns, calls, twin>>

\* The convergence test at x succeeds
Converge ==
    /\ pc = "minimize"
    /\ opt.task = "ITER"
    /\ opt' = [opt EXCEPT !.task = "CONVERGENCE"]
    /\ UNCHANGED <<pc, self, X, labels, A, mask, sign, last, out, warns, calls, twin>>

\* The line search gives up without a point it accepts
Abnormal ==
    /\ pc = "minimize"
    /\ opt.task = "LNSRCH"
    /\ opt' = [opt EXCEPT !.task = "ABNORMAL"]
    /\ UNCHANGED <<pc, self, X, labels, A, mask, sign, last, out, warns, calls, twin>>

Terminated == opt.task \in {"CONVERGENCE", "STOP", "ABNORMAL"}

\* What minimize returns
OptimizeResult ==
    [x |-> opt.x, nit |-> opt.nit, success |-> opt.task = "CONVERGENCE",
     message |-> opt.task]

\* minimize returns and fit runs to its end
FitReturn ==
    /\ pc = "minimize"
    /\ Terminated
    /\ \E e  \in {FitEnd(self, out, warns, OptimizeResult, X)},
          et \in {FitEnd(twin.self, twin.out, twin.warns, OptimizeResult, X)} :
           /\ self' = e.self
           /\ out' = e.out
           /\ warns' = e.warns
           /\ twin' = [twin EXCEPT !.self = et.self, !.out = et.out, !.warns = et.warns]
    /\ pc' = "done"
    /\ UNCHANGED <<X, labels, A, mask, sign, opt, last, calls>>

Next ==
    \/ FitBegin
    \/ Evaluate
    \/ LineSearchTrial
    \/ NewX
    \/ Converge
    \/ Abnormal
    \/ FitReturn

Spec == Init /\ [][Next]_vars

----------------------------------------------------------------------------
(* The evaluator called directly, as a test of it does: any flat vector a, any
   data, any mask, either sign, at any value of the call counter *)

\* The values of a feature: 8.0 apart, exp(-distance) underflows to 0
DataValues == {0, Unit, 8 * Unit}

Matrices(n, d, values) == [1..n -> [1..d -> values]]

\* The data the evaluator is called with: every matrix of three small shapes,
\* and the data of fit
EvalData ==
    Matrices(2, 1, DataValues) \cup Matrices(2, 2, DataValues)
        \cup Matrices(3, 1, DataValues)
        \cup {ds.X : ds \in {e \in Datasets : NRows(e.X) >= 2}}

\* Every same-class mask of n samples
SameClassMasks(n) == {SameClassMask(y) : y \in [1..n -> {0, 1, 2}]}

\* The masks of every other shape up to (n+1) x (n+1)
OtherMasks(n) ==
    {[i \in 1..mr |-> [j \in 1..mc |-> TRUE]] :
        <<mr, mc>> \in ((1..(n + 1)) \X (1..(n + 1))) \ {<<n, n>>}}

\* The flat vectors the evaluator is called at: of every length 1..4
EvalPoints ==
    { <<Unit>>, <<0, 0>>, <<Unit, 0>>, <<Unit \div 2, Unit>>, <<Unit, 0, Unit>>,
      <<Unit, 0, 0, Unit>>, <<2 * Unit, Unit, 0, Unit>> }

InitEval ==
    /\ pc = "direct"
    /\ \E verbose \in BOOLEAN :
          /\ self = [NewNCA(None, 1, verbose) EXCEPT !.n_iter_ = 0]
          /\ twin = Twin([NewNCA(None, 1, verbose) EXCEPT !.n_iter_ = 0])
    /\ X \in EvalData
    /\ labels = <<>>
    /\ A = <<>>
    /\ \/ mask \in SameClassMasks(NRows(X)) /\ sign \in {Unit, -Unit}
       \/ mask \in OtherMasks(NRows(X)) /\ sign = -Unit /\ X \in {ds.X : ds \in Datasets}
    /\ \E a \in EvalPoints : opt = [NoOpt EXCEPT !.x = a]
    /\ last = NoResult
    /\ out = <<>>
    /\ warns = <<>>
    /\ calls = {}

\* 2 * a
Twice(a) == [i \in 1..Len(a) |-> 2 * a[i]]

\* One direct call: the calls are at a = opt.x and at 2 * a in turn
DirectCall ==
    /\ pc = "direct"
    /\ opt.nfev < MaxCalls
    /\ CallEvaluator(IF opt.nfev % 2 = 0 THEN opt.x ELSE Twice(opt.x))
    /\ UNCHANGED <<labels, A, sign, warns, twin>>

NextEval == DirectCall

SpecEval == InitEval /\ [][NextEval]_vars

----------------------------------------------------------------------------
(* fit up to the call of the optimizer, on every small dataset *)

InitBegin ==
    /\ pc = "constructed"
    /\ \E num_dims \in NumDimsChoices :
          /\ self = NewNCA(num_dims, 1, FALSE)
          /\ twin = Twin(NewNCA(num_dims, 1, FALSE))
    /\ X \in EvalData \cup Matrices(1, 2, DataValues)
    /\ labels = [i \in 1..NRows(X) |-> 0]
    /\ A = <<>>
    /\ mask = <<>>
    /\ sign = -Unit
    /\ opt = NoOpt
    /\ last = NoResult
    /\ out = <<>>
    /\ warns = <<>>
    /\ calls = {}

NextBegin == FitBegin

SpecBegin == InitBegin /\ [][NextBegin]_vars

----------------------------------------------------------------------------
(* The properties *)

\* the embedding dimension of the fit
NumDims == IF self.num_dims = None THEN NCols(X) ELSE self.num_dims

\* the latest evaluator call returned
CallReturned == opt.nfev > 0 /\ last.raised = ""

\* C1 as stated: whenever the optimizer ends without success, fit raises
\* nothing, stores the transform and raises a convergence warning, verbose or not
C1_WarnsWhateverVerbose ==
    (pc = "done" /\ ~OptimizeResult.success)
        => /\ self.transformer_ = Reshape(opt.x, NCols(X))
           /\ warns = <<ConvergenceWarning(opt.task)>>

\* C1 amended: whenever the optimizer ends without success, fit raises nothing
\* and stores the transform; it raises the convergence warning exactly when
\* verbose is true, and with success it raises none
C1_WarnsOnlyWhenVerbose ==
    /\ (pc = "minimize" /\ Terminated) => ENABLED FitReturn
    /\ (pc = "raised") => ~ValidInputs(X, labels)
    /\ (pc = "done")
          => /\ self.transformer_ = Reshape(opt.x, NCols(X))
             /\ warns = IF self.verbose /\ opt.task # "CONVERGENCE"
                        THEN <<ConvergenceWarning(opt.task)>> ELSE <<>>

C1_Witness ==
    /\ pc = "done"
    /\ opt.task = "STOP"
    /\ ~self.verbose
    /\ warns = <<>>
    /\ twin.warns = <<ConvergenceWarning("STOP")>>

\* C2 as stated: n_iter_ never decreases in any step of a fit, the step that
\* stores the optimizer's result included
C2_NeverDecreases == [][self.n_iter_' >= self.n_iter_]_vars

\* C2 amended: n_iter_ is 0 when fit enters the optimizer and no evaluator call
\* decreases it; when fit stores the optimizer's result, n_iter_ becomes the
\* optimizer's iteration count, which is less than the calls counted
C2_NeverDecreasesInMinimize ==
    [][/\ (pc = "constructed" /\ pc' = "minimize") => self.n_iter_' = 0
       /\ (pc = "minimize" /\ pc' = "minimize") => self.n_iter_' >= self.n_iter_
       /\ (pc = "minimize" /\ pc' = "done")
             => self.n_iter_' = opt.nit /\ self.n_iter_' < self.n_iter_]_vars

C2_Witness == pc = "done" /\ opt.nfev >= 3 /\ self.n_iter_ = 2

\* C3: two evaluator calls with the same (a, X, M, s) return the same loss and
\* gradient (or raise the same), whatever the call counter was at each
C3_Idempotent ==
    \A c1 \in calls : \A c2 \in calls :
        (c1.A = c2.A /\ c1.X = c2.X /\ c1.mask = c2.mask /\ c1.sign = c2.sign)
            => /\ c1.raised = c2.raised
               /\ c1.loss = c2.loss
               /\ c1.gradient = c2.gradient

C3_Witness ==
    \E c1 \in calls : \E c2 \in calls :
        /\ c1.A = c2.A
        /\ c1.raised = ""
        /\ c1.sign = -Unit
        /\ c1.loss # 0
        /\ c1.n_iter_ = 0
        /\ c2.n_iter_ = 2

MaskShapeDiffers == NRows(mask) # NRows(X) \/ NCols(mask) # NRows(X)

\* C5 as stated: the evaluator raises, returning nothing, when the length of a
\* is not a multiple of d, and when the mask is not n x n, whatever its shape
C5_RaisesOnAnyOtherShape ==
    (opt.nfev > 0 /\ (Len(last.A) % NCols(X) # 0 \/ MaskShapeDiffers))
        => last.raised = "ValueError" /\ last.gradient = <<>>

\* C5 amended: the evaluator raises, returning nothing, exactly when the length
\* of a is not a multiple of d or a dimension of the mask is neither 1 nor n;
\* a 1 x 1, 1 x n or n x 1 mask is broadcast and the call returns
C5_RaisesUnlessBroadcast ==
    (opt.nfev > 0)
        => /\ last.raised \in {"", "ValueError"}
           /\ (last.raised = "ValueError")
                 <=> \/ Len(last.A) % NCols(X) # 0
                     \/ NRows(mask) \notin {1, NRows(X)}
                     \/ NCols(mask) \notin {1, NRows(X)}
           /\ (last.raised = "ValueError") => last.gradient = <<>>
           /\ (last.raised = "") => Len(last.gradient) = Len(last.A)

C5_Witness ==
    /\ opt.nfev > 0
    /\ Len(last.A) % NCols(X) = 0
    /\ NRows(mask) = NRows(X) + 1
    /\ NCols(mask) = NRows(X)
    /\ last.raised = "ValueError"

\* the range of feature j over the samples
RangeOf(j) ==
    LET col == {X[i][j] : i \in 1..NRows(X)}
    IN  (CHOOSE hi \in col : \A v \in col : v <= hi)
        - (CHOOSE lo \in col : \A v \in col : lo <= v)

\* C6: the initial transform is num_dims x d (d x d when num_dims is None), zero
\* off the diagonal, and A[j][j] is 1/max(range_j, EPS), rounded, for every
\* j <= min(num_dims, d): 1/EPS exactly, and finite, for a constant feature;
\* building it raises nothing
C6_InitialTransform ==
    /\ (pc = "raised") => ~ValidInputs(X, labels)
    /\ (pc = "minimize")
          => /\ NRows(A) = NumDims
             /\ opt.x = Ravel(A)
             /\ \A i \in 1..NRows(A) :
                   /\ Len(A[i]) = NCols(X)
                   /\ \A j \in 1..NCols(X) :
                         IF i # j THEN A[i][j] = 0
                         ELSE IF RangeOf(j) = 0
                              THEN A[i][j] * EPS = Unit * Unit /\ IsFinite(A[i][j])
                              ELSE 2 * Abs(A[i][j] * RangeOf(j) - Unit * Unit)
                                      <= RangeOf(j)

C6_Witness ==
    /\ pc = "minimize"
    /\ NCols(X) = 2
    /\ self.num_dims = 3
    /\ RangeOf(1) = 0
    /\ RangeOf(2) = 8 * Unit
    /\ A = << <<Unit * Unit, 0>>, <<0, Unit \div 8>>, <<0, 0>> >>

\* the rounding allowed in the sum of a row of n floats: n ticks
Tolerance == NRows(X) * EPS

\* the masked sum with the diagonal left out
OffDiagonalLoss ==
    SumSeq([i \in 1..NRows(X) |->
              SumSeq([j \in 1..NRows(X) |->
                        IF i # j /\ mask[i][j] THEN last.p_ij[i][j] ELSE 0])])

\* C7: for n >= 2 samples and an n x n same-class mask the call raises nothing;
\* every entry of P is a finite number in [0, 1], P[i][i] = 0, every row of P
\* sums to 1 within the rounding of n floats, the unsigned loss is the masked
\* sum with the diagonal left out and lies in [0, n] within that rounding
C7_RowStochastic ==
    (opt.nfev > 0 /\ Len(last.A) % NCols(X) = 0 /\ ~MaskShapeDiffers)
        => /\ last.raised = ""
           /\ \A i \in 1..NRows(X) :
                 /\ Len(last.p_ij[i]) = NRows(X)
                 /\ last.p_ij[i][i] = 0
                 /\ \A j \in 1..NRows(X) :
                       last.p_ij[i][j] >= 0 /\ last.p_ij[i][j] <= Unit
                 /\ Abs(SumSeq(last.p_ij[i]) - Unit) <= Tolerance
           /\ last.loss = (IF sign > 0 THEN OffDiagonalLoss ELSE -OffDiagonalLoss)
           /\ OffDiagonalLoss >= 0
           /\ OffDiagonalLoss <= NRows(X) * (Unit + Tolerance)

\* identical points 1 and 2, a third point too far for exp not to underflow,
\* and one class
C7_Witness ==
    /\ opt.nfev > 0
    /\ last.raised = ""
    /\ ~MaskShapeDiffers
    /\ NRows(X) = 3
    /\ X[1] = X[2]
    /\ X[3] # X[1]
    /\ \A i \in 1..3 : \A j \in 1..3 : mask[i][j]
    /\ last.p_ij[1] = <<0, Unit, 0>>
    /\ last.p_ij[3][1] > 0
    /\ Abs(last.loss) >= 3 * Unit - Tolerance

\* C8: in a fit, every gradient returned has num_dims * d entries, as many as
\* the point a it was asked at, and the transform fit stores is num_dims x d;
\* num_dims is d when None
C8_Shapes ==
    /\ (pc = "minimize" /\ CallReturned)
          => /\ Len(last.gradient) = NumDims * NCols(X)
             /\ Len(last.A) = NumDims * NCols(X)
    /\ (pc = "minimize") => Len(opt.x) = NumDims * NCols(X)
    /\ (pc = "done")
          => /\ NRows(self.transformer_) = NumDims
             /\ \A i \in 1..NumDims : Len(self.transformer_[i]) = NCols(X)

C8_Witness ==
    /\ pc = "done"
    /\ self.num_dims = 1
    /\ NCols(X) = 2
    /\ NRows(X) = 4
    /\ opt.nit = 2
    /\ Len(last.gradient) = 2
    /\ NRows(self.transformer_) = 1

\* C9: the run with verbose negated, given the same points by the optimizer,
\* gets the same value from every evaluator call, counts the same n_iter_ and
\* ends with the same transformer_; only what is printed and warned differs
C9_VerboseObservational ==
    /\ twin.self.verbose = ~self.verbose
    /\ twin.last = last
    /\ twin.self.n_iter_ = self.n_iter_
    /\ twin.self.transformer_ = self.transformer_

C9_Witness ==
    /\ pc = "done"
    /\ self.verbose
    /\ opt.nfev = 3
    /\ Len(out) = 5
    /\ twin.out = <<>>
    /\ twin.self.transformer_ = self.transformer_
    /\ self.transformer_ # A

\* C10: a step that is an evaluator call of a fit leaves a, X and the mask as
\* they were, adds exactly 1 to n_iter_ and changes nothing else of the
\* instance; every call of the fit was handed the same X and mask
C10_Frame ==
    [][(pc = "minimize" /\ calls' # calls)
          => /\ X' = X
             /\ mask' = mask
             /\ opt'.trial = opt.trial
             /\ opt'.x = opt.x
             /\ self' = [self EXCEPT !.n_iter_ = self.n_iter_ + 1]
             /\ UNCHANGED <<pc, labels, A, sign, warns>>
             /\ \A c \in calls' : c.X = X' /\ c.mask = mask']_vars

C10_Witness ==
    /\ pc = "minimize"
    /\ Cardinality(calls) = 3
    /\ self.n_iter_ = 3
    /\ \E c \in calls : c.A # opt.trial

====
